---- MODULE Spec2Model ----
(***************************************************************************)
(* Model of lora-modem-hal (src/lib.rs): the hex codec (hexify, unhexify), *)
(* the received-packet line parser (RxPacket::try_from), the ModemConfig   *)
(* lookup, Status construction, and the LoraModemDevice trait with its     *)
(* default set_channel.                                                    *)
(*                                                                         *)
(* A Rust &str is modelled as the sequence of its UTF-8 bytes.  An ASCII   *)
(* byte is written as its character ("a", ",", " "); the two bytes of the  *)
(* non-ASCII character U+00E9 are written "xC3" (lead byte) and "xA9"      *)
(* (continuation byte).  Slicing a &str panics when an index is past the   *)
(* end or not on a character boundary; a panic is the outcome Panic.       *)
(***************************************************************************)
EXTENDS Integers, Sequences, FiniteSets, TLC

VARIABLES input, out, out2, calls, opened, ret

vars == <<input, out, out2, calls, opened, ret>>

(* ------------------------------ bounds -------------------------------- *)
MaxBytes == 3      \* longest byte sequence given to hexify
MaxText  == 3      \* longest text (in bytes) given to unhexify directly
MaxRaw   == 3      \* longest unstructured line given to try_from
MaxCalls == 2      \* longest call log of a device session
MaxCode  == 6      \* largest code given to ModemConfig::try_from

(* ------------------------------ results ------------------------------- *)
NoResult == [kind |-> "none"]
Panic    == [kind |-> "panic"]
Ok(v)    == [kind |-> "Ok", val |-> v]
Err(e)   == [kind |-> "Err", err |-> e]

(* ------------------------------ strings ------------------------------- *)
\* str::is_char_boundary, i a byte offset counted from 0
IsCharBoundary(s, i) ==
    \/ i = 0
    \/ i = Len(s)
    \/ i > 0 /\ i < Len(s) /\ s[i + 1] # "xA9"

\* whether &s[a..b] is evaluated without a panic
SliceOk(s, a, b) == a <= b /\ b <= Len(s) /\ IsCharBoundary(s, a) /\ IsCharBoundary(s, b)

\* &s[a..b]
Slice(s, a, b) == SubSeq(s, a + 1, b)

\* &s[a..]
SliceFrom(s, a) == SubSeq(s, a + 1, Len(s))

\* char::is_whitespace, on the bytes of the model's alphabet
IsWhitespace(u) == u \in {" ", "\n", "\r", "\t"}

RECURSIVE TrimStart(_)
TrimStart(s) ==
    IF s # <<>> /\ IsWhitespace(Head(s)) THEN TrimStart(Tail(s)) ELSE s

RECURSIVE TrimEnd(_)
TrimEnd(s) ==
    IF s # <<>> /\ IsWhitespace(s[Len(s)]) THEN TrimEnd(SubSeq(s, 1, Len(s) - 1)) ELSE s

\* str::trim
Trim(s) == TrimEnd(TrimStart(s))

\* str::split(',').collect(): n separators give n + 1 fields
RECURSIVE SplitAcc(_, _, _)
SplitAcc(s, sep, cur) ==
    IF s = <<>> THEN <<cur>>
    ELSE IF Head(s) = sep THEN <<cur>> \o SplitAcc(Tail(s), sep, <<>>)
    ELSE SplitAcc(Tail(s), sep, Append(cur, Head(s)))

Split(s, sep) == SplitAcc(s, sep, <<>>)

(* --------------------------- integer parsing -------------------------- *)
HexDigits   == <<"0", "1", "2", "3", "4", "5", "6", "7", "8", "9", "a", "b", "c", "d", "e", "f">>
UpperDigits == <<"A", "B", "C", "D", "E", "F">>

\* char::to_digit(radix); -1 stands for None
ToDigit(u, radix) ==
    LET v == IF \E k \in 1..16 : HexDigits[k] = u
                THEN (CHOOSE k \in 1..16 : HexDigits[k] = u) - 1
             ELSE IF \E k \in 1..6 : UpperDigits[k] = u
                THEN (CHOOSE k \in 1..6 : UpperDigits[k] = u) + 9
             ELSE -1
    IN IF v < radix THEN v ELSE -1

\* the digit loop of from_str_radix with checked_mul / checked_add (or
\* checked_sub for a negative number); "Err" on a bad digit or an overflow
RECURSIVE Accumulate(_, _, _, _, _, _)
Accumulate(digits, radix, acc, neg, min, max) ==
    IF digits = <<>> THEN Ok(acc)
    ELSE LET d == ToDigit(Head(digits), radix) IN
         IF d < 0 THEN Err("ParseIntError")
         ELSE LET nxt == IF neg THEN acc * radix - d ELSE acc * radix + d IN
              IF nxt < min \/ nxt > max THEN Err("ParseIntError")
              ELSE Accumulate(Tail(digits), radix, nxt, neg, min, max)

\* <unsigned>::from_str_radix: an optional '+', never a '-'
ParseUnsigned(src, radix, max) ==
    IF src = <<>> THEN Err("ParseIntError")
    ELSE IF src = <<"+">> \/ src = <<"-">> THEN Err("ParseIntError")
    ELSE Accumulate(IF Head(src) = "+" THEN Tail(src) ELSE src, radix, 0, FALSE, 0, max)

\* <signed>::from_str_radix: an optional '+' or '-'
ParseSigned(src, radix, min, max) ==
    IF src = <<>> THEN Err("ParseIntError")
    ELSE IF src = <<"+">> \/ src = <<"-">> THEN Err("ParseIntError")
    ELSE IF Head(src) = "+" THEN Accumulate(Tail(src), radix, 0, FALSE, min, max)
    ELSE IF Head(src) = "-" THEN Accumulate(Tail(src), radix, 0, TRUE, min, max)
    ELSE Accumulate(src, radix, 0, FALSE, min, max)

U8Max  == 255
I16Min == -32768
I16Max == 32767

\* u8::from_str_radix(chunk, 16)
U8FromStrRadix16(src) == ParseUnsigned(src, 16, U8Max)

\* str::parse::<i16>()
ParseI16(src) == ParseSigned(src, 10, I16Min, I16Max)

\* usize::MAX of a 64-bit target, as decimal digits (it exceeds the
\* checker's integers)
UsizeMaxDigits == <<1, 8, 4, 4, 6, 7, 4, 4, 0, 7, 3, 7, 0, 9, 5, 5, 1, 6, 1, 5>>

RECURSIVE StripZeros(_)
StripZeros(ds) == IF ds # <<>> /\ Head(ds) = 0 THEN StripZeros(Tail(ds)) ELSE ds

RECURSIVE LexGreater(_, _)
LexGreater(a, b) ==
    IF a = <<>> THEN FALSE
    ELSE IF Head(a) # Head(b) THEN Head(a) > Head(b)
    ELSE LexGreater(Tail(a), Tail(b))

\* whether a decimal numeral overflows usize
ExceedsUsize(ds) ==
    LET n == StripZeros(ds) IN
    \/ Len(n) > Len(UsizeMaxDigits)
    \/ Len(n) = Len(UsizeMaxDigits) /\ LexGreater(n, UsizeMaxDigits)

RECURSIVE Horner(_, _)
Horner(ds, acc) == IF ds = <<>> THEN acc ELSE Horner(Tail(ds), acc * 10 + Head(ds))

\* str::parse::<usize>(): the same loop as ParseUnsigned with max =
\* usize::MAX; the overflow test is made on the digits
ParseUsize(src) ==
    IF src = <<>> THEN Err("ParseIntError")
    ELSE IF src = <<"+">> \/ src = <<"-">> THEN Err("ParseIntError")
    ELSE LET digits == IF Head(src) = "+" THEN Tail(src) ELSE src
             ds == [k \in 1..Len(digits) |-> ToDigit(digits[k], 10)]
         IN IF \E k \in 1..Len(ds) : ds[k] < 0 THEN Err("ParseIntError")
            ELSE IF ExceedsUsize(ds) THEN Err("ParseIntError")
            ELSE Ok(Horner(StripZeros(ds), 0))

(* ------------------------------ hex codec ----------------------------- *)
\* LowerHex written with the digits of UpperHex
LowerHexUpper(b) ==
    LET up == <<"0", "1", "2", "3", "4", "5", "6", "7", "8", "9", "A", "B", "C", "D", "E", "F">>
    IN IF b < 16 THEN <<up[b + 1]>>
       ELSE <<up[(b \div 16) + 1], up[(b % 16) + 1]>>

\* LowerHex of a u8: its base-16 digits without leading zeros
LowerHex(b) ==
    IF b < 16 THEN <<HexDigits[b + 1]>>
    ELSE <<HexDigits[(b \div 16) + 1], HexDigits[(b % 16) + 1]>>

\* the format string without its "02": no fill
ZeroPad2NoFill(s) == s

\* the "02" of the format string: zero fill to width 2
ZeroPad2(s) == IF Len(s) < 2 THEN <<"0">> \o s ELSE s

\* format!("{:02x?}", b)
FormatByte(b) == ZeroPad2(LowerHex(b))

RECURSIVE hexify(_)
hexify(buf) ==
    IF buf = <<>> THEN <<>> ELSE FormatByte(Head(buf)) \o hexify(Tail(buf))

\* the lazy map/collect of unhexify from byte offset i: chunks are sliced
\* and parsed in order and the first Err ends the iteration
RECURSIVE unhexifyFrom(_, _)
unhexifyFrom(s, i) ==
    IF i >= Len(s) THEN Ok(<<>>)
    ELSE IF ~SliceOk(s, i, i + 2) THEN Panic
    ELSE LET r == U8FromStrRadix16(Slice(s, i, i + 2)) IN
         IF r.kind # "Ok" THEN r
         ELSE LET rest == unhexifyFrom(s, i + 2) IN
              IF rest.kind = "Ok" THEN Ok(<<r.val>> \o rest.val) ELSE rest

unhexify(s) == unhexifyFrom(s, 0)

(* --------------------------- packet decoder --------------------------- *)
RxMarker == <<"+", "R", "X", " ">>

MalformedLine  == "output from modem has unexpected length!"
LengthMismatch == "payload length not matching actual payload!"

\* struct RxPacket
RxPacket(rssi, snr, data) == [rssi |-> rssi, snr |-> snr, data |-> data]

\* the text try_from splits: &item[4..] after the marker, else item
\* (evaluated only where &item[0..4] does not panic)
item_payload(item) ==
    IF Slice(item, 0, 4) = RxMarker THEN SliceFrom(item, 4) ELSE item

\* <RxPacket as TryFrom<&str>>::try_from; each unwrap() of an Err panics
try_from(item) ==
    IF ~SliceOk(item, 0, 4) THEN Panic
    ELSE LET fields == Split(Trim(item_payload(item)), ",") IN
         IF Len(fields) # 4 THEN Err(MalformedLine)
         ELSE LET len == ParseUsize(fields[1]) IN
              IF len.kind # "Ok" THEN Panic
              ELSE LET data == unhexify(fields[2]) IN
                   IF data.kind # "Ok" THEN Panic
                   ELSE IF Len(data.val) # len.val THEN Err(LengthMismatch)
                   ELSE LET rssi == ParseI16(fields[3]) IN
                        IF rssi.kind # "Ok" THEN Panic
                        ELSE LET snr == ParseI16(fields[4]) IN
                             IF snr.kind # "Ok" THEN Panic
                             ELSE Ok(RxPacket(rssi.val, snr.val, data.val))

(* ----------------------------- ModemConfig ---------------------------- *)
\* enum ModemConfig: variant |-> discriminant
ModemConfig ==
    [MediumBw125Cr45Sf128Crc    |-> 0,
     FastShortBw500Cr45Sf128Crc |-> 1,
     SlowLongBw3125Cr48Sf512Crc |-> 2,
     SlowLongBw125Cr48Sf4096Crc |-> 3]

UnknownConfigCode == "Unknown modem config code!"

\* try_from with the arms of 2 and 3 exchanged
ModemConfigTryFromSwapped(value) ==
    IF value = 0 THEN Ok("MediumBw125Cr45Sf128Crc")
    ELSE IF value = 1 THEN Ok("FastShortBw500Cr45Sf128Crc")
    ELSE IF value = 2 THEN Ok("SlowLongBw125Cr48Sf4096Crc")
    ELSE IF value = 3 THEN Ok("SlowLongBw3125Cr48Sf512Crc")
    ELSE Err(UnknownConfigCode)

\* <ModemConfig as TryFrom<usize>>::try_from
ModemConfigTryFrom(value) ==
    IF value = 0 THEN Ok("MediumBw125Cr45Sf128Crc")
    ELSE IF value = 1 THEN Ok("FastShortBw500Cr45Sf128Crc")
    ELSE IF value = 2 THEN Ok("SlowLongBw3125Cr48Sf512Crc")
    ELSE IF value = 3 THEN Ok("SlowLongBw125Cr48Sf4096Crc")
    ELSE Err(UnknownConfigCode)

(* ------------------------------- f32 ---------------------------------- *)
\* An f32 is [mant, exp], the value mant * 2^exp with
\* 2^23 <= mant < 2^24, or mant = 0 for 0.0.
F32Zero == [mant |-> 0, exp |-> 0]

RECURSIVE Pow2(_)
Pow2(k) == IF k = 0 THEN 1 ELSE 2 * Pow2(k - 1)

\* round to nearest, ties to even, of num / den
RoundHalfEven(num, den) ==
    LET q == num \div den
        r == num % den
    IN IF 2 * r > den \/ (2 * r = den /\ q % 2 = 1) THEN q + 1 ELSE q

\* least k with n * 2^k / den >= 2^23
RECURSIVE Scale(_, _, _)
Scale(n, den, k) == IF n * Pow2(k) >= Pow2(23) * den THEN k ELSE Scale(n, den, k + 1)

\* (n as f32) / (den as f32) for integers 0 < n < 2^24 (exact as f32)
\* whose quotient is below 2^23: the correctly rounded quotient
F32Div(n, den) ==
    LET k == Scale(n, den, 0)
        m == RoundHalfEven(n * Pow2(k), den)
    IN IF m = Pow2(24) THEN [mant |-> Pow2(23), exp |-> 1 - k]
       ELSE [mant |-> m, exp |-> 0 - k]

(* ------------------------------- Status ------------------------------- *)
\* Status::new with the listener on
StatusNewListening ==
    [version      |-> "0.0",
     config       |-> "MediumBw125Cr45Sf128Crc",
     max_pkt_size |-> 0,
     frequency    |-> F32Zero,
     rx_listener  |-> TRUE,
     rx_bad       |-> 0,
     rx_good      |-> 0,
     tx_good      |-> 0]

\* Status::new
StatusNew ==
    [version      |-> "0.0",
     config       |-> "MediumBw125Cr45Sf128Crc",
     max_pkt_size |-> 0,
     frequency    |-> F32Zero,
     rx_listener  |-> FALSE,
     rx_bad       |-> 0,
     rx_good      |-> 0,
     tx_good      |-> 0]

\* <Status as Default>::default
StatusDefault == StatusNew

(* ---------------------------- LoRaChannels ---------------------------- *)
\* enum LoRaChannels: the discriminants
LoRaChannels ==
    {86810, 86830, 86850, 86710, 86730, 86750, 86770, 86790, 86880,
     86520, 86550, 86580, 86610, 86640, 86670, 86700, 86800,
     90308, 90524, 90740, 90956, 91172, 91388, 91604, 91820, 92036,
     92252, 92468, 92684, 91500}

(* ------------------------------- inputs ------------------------------- *)
\* sequences over S of length at most n
SeqsUpTo(S, n) == UNION {[1..k -> S] : k \in 0..n}

\* well-formed UTF-8: "xC3" and "xA9" occur only as the pair "xC3", "xA9"
ValidUtf8(s) ==
    /\ \A i \in 1..Len(s) : s[i] = "xC3" => i < Len(s) /\ s[i + 1] = "xA9"
    /\ \A i \in 1..Len(s) : s[i] = "xA9" => i > 1 /\ s[i - 1] = "xC3"

ByteSample == {0, 1, 10, 16, 171, 255}

TextAlphabet == {"0", "9", "a", "f", "A", "F", "g", "+", "-", " ", "xC3", "xA9"}

RawAlphabet == {"+", "R", "X", " ", ",", "1", "xC3", "xA9"}

LenFields ==
    {<<"0">>, <<"1">>, <<"2">>, <<"4">>, <<"+", "1">>, <<"-", "1">>, <<>>, <<"x">>,
     [k \in 1..20 |-> "9"]}

HexFields ==
    {<<>>, <<"d", "e">>, <<"D", "E", "A", "D", "B", "E", "E", "F">>,
     <<"d", "e", "a", "d">>, <<"+", "f">>, <<"d">>, <<"z", "z">>, <<"d", "xC3", "xA9">>}

RssiFields ==
    {<<"-", "4", "2">>, <<"3", "2", "7", "6", "7">>, <<"3", "2", "7", "6", "8">>,
     <<"-", "3", "2", "7", "6", "8">>, <<"-", "3", "2", "7", "6", "9">>,
     <<"x">>, <<"xC3", "xA9">>}

SnrFields == {<<"7">>, <<"+", "7">>, <<"-">>, <<>>}

Paddings == {<<<<>>, <<>>>>, <<<<" ">>, <<>>>>, <<<<>>, <<"\r", "\n">>>>}

RECURSIVE Join(_)
Join(fs) ==
    IF Len(fs) = 0 THEN <<>>
    ELSE IF Len(fs) = 1 THEN fs[1]
    ELSE fs[1] \o <<",">> \o Join(Tail(fs))

\* the field lists of the structured lines: 4 fields, 3 fields, 5 fields
FieldLists ==
    UNION {{<<l, h, r, n>>, <<l, h, r>>, <<l, h, r, n, <<"0">>>>} :
           <<l, h, r, n>> \in LenFields \X HexFields \X RssiFields \X SnrFields}

StructuredLines ==
    {m \o p[1] \o Join(fs) \o p[2] :
        <<m, p, fs>> \in {<<>>, RxMarker} \X Paddings \X FieldLists}

RawLines == {s \in SeqsUpTo(RawAlphabet, MaxRaw) : ValidUtf8(s)}

Results == {"Ok", "Err"}

NoArg == [none |-> TRUE]

NoCall == [op |-> "none", arg |-> NoArg, res |-> "none"]

(* ------------------------------ behaviour ----------------------------- *)
Init ==
    /\ \/ \E b \in SeqsUpTo(ByteSample, MaxBytes) : input = [kind |-> "bytes", val |-> b]
       \/ \E s \in {t \in SeqsUpTo(TextAlphabet, MaxText) : ValidUtf8(t)} :
              input = [kind |-> "text", val |-> s]
       \/ \E s \in StructuredLines \cup RawLines : input = [kind |-> "line", val |-> s]
       \/ \E v \in 0..MaxCode : input = [kind |-> "code", val |-> v]
       \/ input = [kind |-> "status", val |-> 0]
       \/ \E c \in LoRaChannels : input = [kind |-> "session", val |-> c]
    /\ out = NoResult
    /\ out2 = NoResult
    /\ calls = <<>>
    /\ opened = FALSE
    /\ ret = NoCall

\* hexify(b)
Hexify ==
    /\ input.kind = "bytes" /\ out.kind = "none"
    /\ out' = Ok(hexify(input.val))
    /\ UNCHANGED <<input, out2, calls, opened, ret>>

\* unhexify(&hexify(b))
UnhexifyEncoded ==
    /\ input.kind = "bytes" /\ out.kind = "Ok" /\ out2.kind = "none"
    /\ out2' = unhexify(out.val)
    /\ UNCHANGED <<input, out, calls, opened, ret>>

\* unhexify(s)
Unhexify ==
    /\ input.kind = "text" /\ out.kind = "none"
    /\ out' = unhexify(input.val)
    /\ UNCHANGED <<input, out2, calls, opened, ret>>

\* RxPacket::try_from(line)
TryFrom ==
    /\ input.kind = "line" /\ out.kind = "none"
    /\ out' = try_from(input.val)
    /\ UNCHANGED <<input, out2, calls, opened, ret>>

\* RxPacket::try_from("+RX " + line)
TryFromPrefixed ==
    /\ input.kind = "line" /\ out2.kind = "none"
    /\ out2' = try_from(RxMarker \o input.val)
    /\ UNCHANGED <<input, out, calls, opened, ret>>

\* ModemConfig::try_from(code)
ConfigTryFrom ==
    /\ input.kind = "code" /\ out.kind = "none"
    /\ out' = ModemConfigTryFrom(input.val)
    /\ UNCHANGED <<input, out2, calls, opened, ret>>

\* Status::new()
NewStatus ==
    /\ input.kind = "status" /\ out.kind = "none"
    /\ out' = Ok(StatusNew)
    /\ UNCHANGED <<input, out2, calls, opened, ret>>

\* Status::default()
DefaultStatus ==
    /\ input.kind = "status" /\ out2.kind = "none"
    /\ out2' = Ok(StatusDefault)
    /\ UNCHANGED <<input, out, calls, opened, ret>>

(* --------------------------- LoraModemDevice -------------------------- *)
\* A required method of the trait, as any implementor may behave: the call
\* is recorded with the result r the implementor chose to return.  A
\* session is a sequence of at most MaxCalls calls on one device; its
\* set_channel calls use the channel drawn for the session.
Required(method, arg, r) ==
    /\ calls' = Append(calls, [method |-> method, arg |-> arg, res |-> r])
    /\ opened' = IF method = "open" /\ r = "Ok" THEN TRUE ELSE opened

InSession == input.kind = "session" /\ Len(calls) < MaxCalls

\* the derivation with the divisor 10.0
channel_frequency_tenth(channel) == F32Div(channel, 10)

\* the derivation of set_channel: (channel as i32) as f32 / 100.0
channel_frequency(channel) == F32Div(channel, 100)

\* the provided method LoraModemDevice::set_channel, returning r
set_channel(channel, r) ==
    /\ Required("set_frequency", channel_frequency(channel), r)
    /\ ret' = [op |-> "set_channel", arg |-> [channel |-> channel], res |-> r]

SetChannel ==
    /\ InSession
    /\ \E r \in Results : set_channel(input.val, r)
    /\ UNCHANGED <<input, out, out2>>

Open ==
    /\ InSession
    /\ \E r \in Results :
          Required("open", NoArg, r) /\ ret' = [op |-> "open", arg |-> NoArg, res |-> r]
    /\ UNCHANGED <<input, out, out2>>

SetFrequency ==
    /\ InSession
    /\ \E c \in {43300}, r \in Results :
          /\ Required("set_frequency", F32Div(c, 100), r)
          /\ ret' = [op |-> "set_frequency", arg |-> F32Div(c, 100), res |-> r]
    /\ UNCHANGED <<input, out, out2>>

Config ==
    /\ InSession
    /\ \E r \in Results :
          Required("config", NoArg, r) /\ ret' = [op |-> "config", arg |-> NoArg, res |-> r]
    /\ UNCHANGED <<input, out, out2>>

SetMode ==
    /\ InSession
    /\ \E m \in DOMAIN ModemConfig, r \in Results :
          /\ Required("set_mode", [mode |-> m], r)
          /\ ret' = [op |-> "set_mode", arg |-> [mode |-> m], res |-> r]
    /\ UNCHANGED <<input, out, out2>>

SendData ==
    /\ InSession
    /\ \E d \in {<<222, 173>>}, r \in Results :
          /\ Required("send_data", [data |-> d], r)
          /\ ret' = [op |-> "send_data", arg |-> [data |-> d], res |-> r]
    /\ UNCHANGED <<input, out, out2>>

ReadPacket ==
    /\ InSession
    /\ \E r \in Results :
          /\ Required("read_packet", NoArg, r)
          /\ ret' = [op |-> "read_packet", arg |-> NoArg, res |-> r]
    /\ UNCHANGED <<input, out, out2>>

ReadLine ==
    /\ InSession
    /\ \E r \in Results :
          /\ Required("read_line", NoArg, r)
          /\ ret' = [op |-> "read_line", arg |-> NoArg, res |-> r]
    /\ UNCHANGED <<input, out, out2>>

Next ==
    \/ Hexify
    \/ UnhexifyEncoded
    \/ Unhexify
    \/ TryFrom
    \/ TryFromPrefixed
    \/ ConfigTryFrom
    \/ NewStatus
    \/ DefaultStatus
    \/ SetChannel
    \/ Open
    \/ SetFrequency
    \/ Config
    \/ SetMode
    \/ SendData
    \/ ReadPacket
    \/ ReadLine

Spec == Init /\ [][Next]_vars

TypeOK ==
    /\ input.kind \in {"bytes", "text", "line", "code", "status", "session"}
    /\ out.kind \in {"none", "Ok", "Err", "panic"}
    /\ out2.kind \in {"none", "Ok", "Err", "panic"}
    /\ Len(calls) <= MaxCalls
    /\ opened \in BOOLEAN

(* ------------------------- vocabulary of the claims ------------------- *)
LowerHexChars == {"0", "1", "2", "3", "4", "5", "6", "7", "8", "9", "a", "b", "c", "d", "e", "f"}

HexChars == LowerHexChars \cup {"A", "B", "C", "D", "E", "F"}

\* a text of hexadecimal digits only, two per byte
IsHexText(s) == Len(s) % 2 = 0 /\ \A i \in 1..Len(s) : s[i] \in HexChars

\* the fields of a line: the optional marker stripped, the rest trimmed and
\* split on ','
LineFields(line) ==
    LET body == IF Len(line) >= 4 /\ SubSeq(line, 1, 4) = RxMarker
                   THEN SubSeq(line, 5, Len(line)) ELSE line
    IN Split(Trim(body), ",")

Decoded     == input.kind = "line" /\ out.kind # "none"
DecodedBoth == Decoded /\ out2.kind # "none"

(* ------------------------------- claims ------------------------------- *)

\* C1: hex round trip: for every byte sequence b, unhexify(hexify(b))
\* succeeds and returns exactly b.
RoundTripLaw ==
    input.kind = "bytes" /\ out2.kind # "none" =>
        out2.kind = "Ok" /\ out2.val = input.val

RoundTripWitness ==
    /\ input.kind = "bytes" /\ input.val = <<1, 171, 0>>
    /\ out2.kind = "Ok" /\ out2.val = <<1, 171, 0>>

\* C2 (as stated): unhexify returns a DecodeError, never bytes and never an
\* abort, for every text of odd length and every text holding a character
\* that is not a hexadecimal digit.
DecodeRejectsBadText ==
    /\ input.kind = "text" /\ out.kind # "none"
    /\ \/ Len(input.val) % 2 = 1
       \/ \E i \in 1..Len(input.val) : input.val[i] \notin HexChars
    => out.kind = "Err"

\* C3 (as stated): for every input line try_from returns a packet or a
\* typed failure; it never aborts.
TryFromNeverAborts == Decoded => out.kind \in {"Ok", "Err"}

\* C4 (as stated): every returned packet has data.length = the declared
\* length, and a line of four fields with a numeric length field and a valid
\* hex payload whose byte count differs from the declared length gives the
\* LengthMismatch failure.
LengthChecked ==
    Decoded =>
        LET fs == LineFields(input.val) IN
        /\ out.kind = "Ok" =>
              /\ Len(fs) = 4 /\ ParseUsize(fs[1]).kind = "Ok"
              /\ Len(out.val.data) = ParseUsize(fs[1]).val
        /\ ( /\ Len(fs) = 4
             /\ ParseUsize(fs[1]).kind = "Ok"
             /\ IsHexText(fs[2])
             /\ Len(fs[2]) \div 2 # ParseUsize(fs[1]).val )
           => out.kind = "Err" /\ out.err = LengthMismatch

\* C5 (as stated): a line whose text, after the optional marker is stripped
\* and the rest trimmed, does not split into exactly 4 fields fails with
\* MalformedLine, whatever its fields hold.
FieldCountChecked ==
    Decoded /\ Len(LineFields(input.val)) # 4 =>
        out.kind = "Err" /\ out.err = MalformedLine

\* C6 (as stated): for every line body B, try_from("+RX " + B) and
\* try_from(B) give the same outcome.
PrefixedEqualsBare == DecodedBoth => out2 = out

\* C7: set_channel(c) makes exactly one call of the implementor, to
\* set_frequency with the f32 nearest to channel_value(c) / 100, leaves the
\* implementor otherwise alone, and returns that call's result unchanged.
SetChannelDelegates ==
    [][ret'.op = "set_channel" =>
          LET c == ret'.arg.channel
              call == calls'[Len(calls')]
          IN /\ c \in LoRaChannels
             /\ Len(calls') = Len(calls) + 1
             /\ SubSeq(calls', 1, Len(calls)) = calls
             /\ call.method = "set_frequency"
             /\ call.arg.exp <= 0
             /\ call.arg.mant >= Pow2(23) /\ call.arg.mant < Pow2(24)
             /\ 2 * (call.arg.mant * 100 - c * Pow2(0 - call.arg.exp)) <= 100
             /\ 2 * (c * Pow2(0 - call.arg.exp) - call.arg.mant * 100) <= 100
             /\ (c = 86810 => call.arg = [mant |-> 14222950, exp |-> -14])
             /\ (c = 90308 => call.arg = [mant |-> 14796063, exp |-> -14])
             /\ ret'.res = call.res
             /\ opened' = opened]_vars

SetChannelWitness ==
    /\ input.kind = "session" /\ ~opened
    /\ Len(calls) = 2
    /\ calls[1].method = "read_line"
    /\ ret = [op |-> "set_channel", arg |-> [channel |-> 90308], res |-> "Err"]
    /\ calls[2] = [method |-> "set_frequency",
                   arg |-> [mant |-> 14796063, exp |-> -14], res |-> "Err"]

\* C8: ModemConfig::try_from maps 0, 1, 2, 3 to the medium-range default,
\* fast/short-range, slow/long-range (31.25 kHz, SF 512) and slow/long-range
\* (125 kHz, SF 4096) presets, each with that code as its discriminant, and
\* every other code to the unknown-code failure.
FromCodeTotal ==
    input.kind = "code" /\ out.kind # "none" =>
        LET v == input.val IN
        /\ v = 0 => out.kind = "Ok" /\ out.val = "MediumBw125Cr45Sf128Crc"
        /\ v = 1 => out.kind = "Ok" /\ out.val = "FastShortBw500Cr45Sf128Crc"
        /\ v = 2 => out.kind = "Ok" /\ out.val = "SlowLongBw3125Cr48Sf512Crc"
        /\ v = 3 => out.kind = "Ok" /\ out.val = "SlowLongBw125Cr48Sf4096Crc"
        /\ out.kind = "Ok" => ModemConfig[out.val] = v
        /\ v >= 4 => out.kind = "Err" /\ out.err = UnknownConfigCode

FromCodeWitness ==
    /\ input.kind = "code" /\ input.val = 2
    /\ out.kind = "Ok" /\ out.val = "SlowLongBw3125Cr48Sf512Crc"

\* C9: hexify(b) has exactly 2 * length(b) characters; characters 2i and
\* 2i + 1 are the high and the low nibble of byte i as lowercase hex digits.
HexifyShape ==
    input.kind = "bytes" /\ out.kind # "none" =>
        /\ Len(out.val) = 2 * Len(input.val)
        /\ \A i \in 1..Len(input.val) :
              /\ out.val[2 * i - 1] \in LowerHexChars
              /\ out.val[2 * i] \in LowerHexChars
              /\ ToDigit(out.val[2 * i - 1], 16) = input.val[i] \div 16
              /\ ToDigit(out.val[2 * i], 16) = input.val[i] % 16

HexifyWitness ==
    /\ input.kind = "bytes" /\ input.val = <<10, 171>>
    /\ out.kind = "Ok" /\ out.val = <<"0", "a", "a", "b">>

\* C10: a fresh Status, from Status::new and from Status::default alike,
\* has version "0.0", the medium-range default preset, max_pkt_size 0,
\* frequency 0, rx_listener false and all counters 0.
FreshStatus ==
    LET Fresh(st) ==
            /\ st.version = "0.0"
            /\ st.config = "MediumBw125Cr45Sf128Crc" /\ ModemConfig[st.config] = 0
            /\ st.max_pkt_size = 0
            /\ st.frequency.mant = 0
            /\ st.rx_listener = FALSE
            /\ st.rx_bad = 0 /\ st.rx_good = 0 /\ st.tx_good = 0
    IN input.kind = "status" =>
        /\ out.kind # "none" => Fresh(out.val)
        /\ out2.kind # "none" => Fresh(out2.val)
        /\ out.kind # "none" /\ out2.kind # "none" => out.val = out2.val

FreshStatusWitness ==
    input.kind = "status" /\ out.kind = "Ok" /\ out2.kind = "Ok"

====
